---- MODULE Spec2Model ----
(***************************************************************************)
(* postcode-db-generator: the batch-upsert pipeline (src/batch_insert.rs), *)
(* the streaming record builder and the ingestion loop (parse_file), and   *)
(* the deduplication pass (process_data) of src/main.rs.                   *)
(***************************************************************************)
EXTENDS Integers, Sequences, FiniteSets, TLC

\* ------------------------------------------------------------------ bounds
\* batch_size and pool_size given to BatchInsert::new range over 1..Max.
MaxBatchSize == 2
MaxPoolSize == 2
\* the capacity of a worker's channel (512 in the source), scaled down so that
\* a full queue is reachable.
QueueCapacity == 2
\* calls of insert() and explicit calls of flush() in one run.
MaxInserts == 3
MaxFlushes == 1
\* parse_file: BUFFER_SIZE (256 in the source) and the number of unjoined
\* write tasks at which the loop drains them (128 in the source), scaled down
\* so that a spawned write and a drain are reachable.
BUFFER_SIZE == 2
MaxFutures == 2
\* start elements read in one run of the record builder, and in one run of main
MaxBuilderEvents == 6
MaxMainEvents == 10
\* rows of the table the deduplication pass is started on
MaxRows == 2
\* node elements of the input that is ingested twice
MaxIdemRecords == 3


VARIABLES
    \* ---- BatchInsert (src/batch_insert.rs)
    batch_size,       \* BatchInsert.batch_size
    pool_size,        \* the pool_size given to new(): handles.len()
    batch,            \* BatchInsert.batch
    dispatchers,      \* the contents of each worker's channel, by worker index
    senders_open,     \* FALSE once drop() has cleared `dispatchers`
    handles,          \* each worker task: [state, cur]
    last_dispatcher,  \* BatchInsert.last_dispatcher
    bi_pc,            \* where the owner of the BatchInsert is
    sending,          \* the batch flush() is sending
    join_idx,         \* the handle drop() is joining
    \* ---- the store
    node,             \* the rows of table node
    \* ---- history of the BatchInsert run
    inserted,         \* the records passed to insert(), in order
    nflush,           \* explicit flush() calls made
    last_op,          \* the last call made on the BatchInsert
    sent,             \* per worker, the batches sent to it, in order
    written,          \* per worker, the batches it has upserted, in order
    \* ---- main / parse_file / process_data (src/main.rs)
    pc,               \* where main is
    now,              \* parse_file: now, the clock read when the run started
    input,            \* the start elements of the input, when it is fixed
    current_node,     \* parse_file: current_node
    buffer,           \* parse_file: buffer
    futures,          \* parse_file: futures, each spawned write with its state
    current_province, \* parse_file: current_province
    current_country,  \* parse_file: current_country
    pending,          \* the start element held while join_all(futures) waits
    node_uniq,        \* the scratch table of process_data
    \* ---- history of the parse_file run
    nevents,          \* start elements read so far
    hist,             \* what the input said of the current record
    seen_province,    \* the value of the last province tag read
    seen_country,     \* the value of the last country tag read
    finalized,        \* the last record finalized, and whether it was pushed
    writes_running,   \* spawned writes that have not finished
    write_failed,     \* whether a batch write of this run has failed
    node_before       \* the rows of node when process_data started

bi_vars == <<batch_size, pool_size, batch, dispatchers, senders_open, handles,
             last_dispatcher, bi_pc, sending, join_idx, inserted, nflush,
             last_op, sent, written>>

pf_vars == <<pc, now, input, current_node, buffer, futures, current_province,
             current_country, pending, node_uniq, nevents, hist, seen_province,
             seen_country, finalized, writes_running, write_failed, node_before>>

vars == <<bi_vars, pf_vars, node>>

\* ------------------------------------------------------------------ store
UpsertRow_DoNothing(tbl, r) ==
    IF \E x \in tbl : x.id = r.id THEN tbl ELSE tbl \cup {r}

\* INSERT ... ON CONFLICT (id) DO UPDATE SET <every column>: one row.
UpsertRow(tbl, r) == {x \in tbl : x.id # r.id} \cup {r}

\* insert_many(batch).on_conflict(..).exec(): the rows in order.
RECURSIVE Upsert(_, _)
Upsert(tbl, rows) ==
    IF rows = <<>> THEN tbl
    ELSE Upsert(UpsertRow(tbl, Head(rows)), Tail(rows))

\* ------------------------------------------------------------ BatchInsert
Workers == 0..(pool_size - 1)

NoBatch == [items |-> <<>>, n |-> 0]

RECURSIVE SentUpTo(_)
SentUpTo(w) == IF w < 0 THEN 0 ELSE Len(sent[w]) + SentUpTo(w - 1)

\* the batches whose send() has completed
TotalSent == SentUpTo(pool_size - 1)

BatchInsertNew ==
    /\ batch_size \in 1..MaxBatchSize
    /\ pool_size \in 1..MaxPoolSize
    /\ batch = <<>>
    /\ dispatchers = [w \in 0..(pool_size - 1) |-> <<>>]
    /\ senders_open = TRUE
    /\ handles = [w \in 0..(pool_size - 1) |-> [state |-> "recv", cur |-> NoBatch]]
    /\ last_dispatcher = 0
    /\ bi_pc = "idle"
    /\ sending = NoBatch
    /\ join_idx = 0
    /\ inserted = <<>>
    /\ nflush = 0
    /\ last_op = "new"
    /\ sent = [w \in 0..(pool_size - 1) |-> <<>>]
    /\ written = [w \in 0..(pool_size - 1) |-> <<>>]

NextDispatcher_SkipOne == (last_dispatcher + 2) % pool_size

\* the cursor flush() moves to
NextDispatcher == (last_dispatcher + 1) % pool_size

\* flush(), up to the await of send(): the batch is drained and the cursor moved.
FlushStart(items) ==
    /\ last_dispatcher' = NextDispatcher
    /\ sending' = [items |-> items, n |-> TotalSent + 1]
    /\ batch' = <<>>
    /\ bi_pc' = "send"

Insert_FlushLate(value) ==
    /\ bi_pc = "idle"
    /\ Len(inserted) < MaxInserts
    /\ inserted' = Append(inserted, value)
    /\ last_op' = "insert"
    /\ IF Len(batch) + 1 > batch_size
       THEN FlushStart(Append(batch, value))
       ELSE /\ batch' = Append(batch, value)
            /\ UNCHANGED <<last_dispatcher, sending, bi_pc>>
    /\ UNCHANGED pf_vars
    /\ UNCHANGED <<batch_size, pool_size, dispatchers, senders_open, handles,
                   join_idx, nflush, sent, written, node>>

\* insert(value)
Insert(value) ==
    /\ bi_pc = "idle"
    /\ Len(inserted) < MaxInserts
    /\ inserted' = Append(inserted, value)
    /\ last_op' = "insert"
    /\ IF Len(batch) + 1 >= batch_size
       THEN FlushStart(Append(batch, value))
       ELSE /\ batch' = Append(batch, value)
            /\ UNCHANGED <<last_dispatcher, sending, bi_pc>>
    /\ UNCHANGED pf_vars
    /\ UNCHANGED <<batch_size, pool_size, dispatchers, senders_open, handles,
                   join_idx, nflush, sent, written, node>>

\* an explicit flush()
Flush ==
    /\ bi_pc = "idle"
    /\ nflush < MaxFlushes
    /\ nflush' = nflush + 1
    /\ last_op' = "flush"
    /\ FlushStart(batch)
    /\ UNCHANGED pf_vars
    /\ UNCHANGED <<batch_size, pool_size, dispatchers, senders_open, handles,
                   join_idx, inserted, sent, written, node>>

HasRoom_OffByOne(w) == Len(dispatchers[w]) <= QueueCapacity

\* whether send() on worker w's channel can complete now
HasRoom(w) == Len(dispatchers[w]) < QueueCapacity

\* send(batch).await completes: the channel has room
SendOk ==
    /\ bi_pc = "send"
    /\ handles[last_dispatcher].state # "aborted"
    /\ HasRoom(last_dispatcher)
    /\ dispatchers' = [dispatchers EXCEPT ![last_dispatcher] = Append(@, sending)]
    /\ sent' = [sent EXCEPT ![last_dispatcher] = Append(@, sending)]
    /\ sending' = NoBatch
    /\ bi_pc' = "idle"
    /\ UNCHANGED pf_vars
    /\ UNCHANGED <<batch_size, pool_size, batch, senders_open, handles,
                   last_dispatcher, join_idx, inserted, nflush, last_op,
                   written, node>>

\* send(batch).await fails: the receiver is gone, and unwrap() panics
SendClosed ==
    /\ bi_pc = "send"
    /\ handles[last_dispatcher].state = "aborted"
    /\ sending' = NoBatch
    /\ bi_pc' = "panicked"
    /\ UNCHANGED pf_vars
    /\ UNCHANGED <<batch_size, pool_size, batch, dispatchers, senders_open,
                   handles, last_dispatcher, join_idx, inserted, nflush,
                   last_op, sent, written, node>>

WorkerRecv_Lifo(w) ==
    /\ handles[w].state = "recv"
    /\ dispatchers[w] # <<>>
    /\ handles' = [handles EXCEPT ![w] =
                     [state |-> "exec", cur |-> dispatchers[w][Len(dispatchers[w])]]]
    /\ dispatchers' = [dispatchers EXCEPT ![w] = SubSeq(@, 1, Len(@) - 1)]
    /\ UNCHANGED pf_vars
    /\ UNCHANGED <<batch_size, pool_size, batch, senders_open, last_dispatcher,
                   bi_pc, sending, join_idx, inserted, nflush, last_op, sent,
                   written, node>>

\* a worker's rx.recv().await yields a batch
WorkerRecv(w) ==
    /\ handles[w].state = "recv"
    /\ dispatchers[w] # <<>>
    /\ handles' = [handles EXCEPT ![w] = [state |-> "exec", cur |-> Head(dispatchers[w])]]
    /\ dispatchers' = [dispatchers EXCEPT ![w] = Tail(@)]
    /\ UNCHANGED pf_vars
    /\ UNCHANGED <<batch_size, pool_size, batch, senders_open, last_dispatcher,
                   bi_pc, sending, join_idx, inserted, nflush, last_op, sent,
                   written, node>>

WorkerRecvNone_IgnoreQueue(w) ==
    /\ handles[w].state = "recv"
    /\ ~senders_open
    /\ handles' = [handles EXCEPT ![w] = [state |-> "done", cur |-> NoBatch]]
    /\ UNCHANGED pf_vars
    /\ UNCHANGED <<batch_size, pool_size, batch, dispatchers, senders_open,
                   last_dispatcher, bi_pc, sending, join_idx, inserted, nflush,
                   last_op, sent, written, node>>

\* a worker's rx.recv().await yields None: every sender dropped, queue empty
WorkerRecvNone(w) ==
    /\ handles[w].state = "recv"
    /\ dispatchers[w] = <<>>
    /\ ~senders_open
    /\ handles' = [handles EXCEPT ![w] = [state |-> "done", cur |-> NoBatch]]
    /\ UNCHANGED pf_vars
    /\ UNCHANGED <<batch_size, pool_size, batch, dispatchers, senders_open,
                   last_dispatcher, bi_pc, sending, join_idx, inserted, nflush,
                   last_op, sent, written, node>>

\* the rows a worker's upsert leaves in the store
WorkerUpsert(tbl, b) == Upsert(tbl, b.items)

\* a worker's insert_many(..).exec(&db).await returns Ok
WorkerExecOk(w) ==
    /\ handles[w].state = "exec"
    /\ node' = WorkerUpsert(node, handles[w].cur)
    /\ written' = [written EXCEPT ![w] = Append(@, handles[w].cur)]
    /\ handles' = [handles EXCEPT ![w] = [state |-> "recv", cur |-> NoBatch]]
    /\ UNCHANGED pf_vars
    /\ UNCHANGED <<batch_size, pool_size, batch, dispatchers, senders_open,
                   last_dispatcher, bi_pc, sending, join_idx, inserted, nflush,
                   last_op, sent>>

\* a worker's exec returns Err: unwrap() panics, the task ends and its receiver
\* is dropped with whatever the channel still holds
WorkerExecErr(w) ==
    /\ handles[w].state = "exec"
    /\ handles' = [handles EXCEPT ![w] = [state |-> "aborted", cur |-> NoBatch]]
    /\ dispatchers' = [dispatchers EXCEPT ![w] = <<>>]
    /\ UNCHANGED pf_vars
    /\ UNCHANGED <<batch_size, pool_size, batch, senders_open, last_dispatcher,
                   bi_pc, sending, join_idx, inserted, nflush, last_op, sent,
                   written, node>>

Drop_KeepSenders ==
    /\ bi_pc \in {"idle", "panicked"}
    /\ join_idx' = 0
    /\ bi_pc' = IF bi_pc = "idle" THEN "join" ELSE "join_unwinding"
    /\ UNCHANGED pf_vars
    /\ UNCHANGED <<batch_size, pool_size, batch, dispatchers, senders_open,
                   handles, last_dispatcher, sending, inserted, nflush,
                   last_op, sent, written, node>>

\* drop(): dispatchers.clear(), then the handles are joined in order. It runs
\* at scope exit and when a panic of flush() unwinds the owner.
Drop ==
    /\ bi_pc \in {"idle", "panicked"}
    /\ senders_open' = FALSE
    /\ join_idx' = 0
    /\ bi_pc' = IF bi_pc = "idle" THEN "join" ELSE "join_unwinding"
    /\ UNCHANGED pf_vars
    /\ UNCHANGED <<batch_size, pool_size, batch, dispatchers, handles,
                   last_dispatcher, sending, inserted, nflush, last_op, sent,
                   written, node>>

\* block_on(join!(handle)) returns Ok for the handle drop() waits on
JoinOk ==
    /\ bi_pc \in {"join", "join_unwinding"}
    /\ handles[join_idx].state = "done"
    /\ IF join_idx + 1 < pool_size
       THEN /\ join_idx' = join_idx + 1
            /\ bi_pc' = bi_pc
       ELSE /\ join_idx' = join_idx
            /\ bi_pc' = IF bi_pc = "join" THEN "dropped" ELSE "panicked_dropped"
    /\ UNCHANGED pf_vars
    /\ UNCHANGED <<batch_size, pool_size, batch, dispatchers, senders_open,
                   handles, last_dispatcher, sending, inserted, nflush, last_op,
                   sent, written, node>>

\* block_on(join!(handle)) returns the JoinError of a panicked worker, and
\* unwrap() panics inside drop()
JoinErr ==
    /\ bi_pc \in {"join", "join_unwinding"}
    /\ handles[join_idx].state = "aborted"
    /\ bi_pc' = "drop_panicked"
    /\ UNCHANGED pf_vars
    /\ UNCHANGED <<batch_size, pool_size, batch, dispatchers, senders_open,
                   handles, last_dispatcher, sending, join_idx, inserted,
                   nflush, last_op, sent, written, node>>

\* the ids a record handed to insert() is drawn from: a fresh id, or the id of
\* the first record again; its version is its ordinal in the run.
InsertIds == {1, Len(inserted) + 1}

BatchInsertNext ==
    \/ \E i \in InsertIds : Insert([id |-> i, version |-> Len(inserted) + 1])
    \/ Flush
    \/ SendOk
    \/ SendClosed
    \/ \E w \in Workers : WorkerRecv(w)
    \/ \E w \in Workers : WorkerRecvNone(w)
    \/ \E w \in Workers : WorkerExecOk(w)
    \/ \E w \in Workers : WorkerExecErr(w)
    \/ Drop
    \/ JoinOk
    \/ JoinErr

\* ------------------------------------------------------ values (main.rs)
\* Option<T>: None, Some(v); ActiveValue<T>: NotSet, Set(v); SQL NULL.
None == <<>>
Some(v) == <<v>>
NotSet == <<>>
Set(v) == <<v>>
NULL == "NULL"

\* ActiveValue::is_set
is_set(av) == av # NotSet

\* Option::map_or(ActiveValue::NotSet, |attr| ActiveValue::Set(attr))
MapOrNotSet(opt) == IF opt = None THEN NotSet ELSE Set(opt[1])

\* str::to_uppercase on the strings of the inputs
to_uppercase(str) ==
    CASE str = "ab 1" -> "AB 1"
      [] str = "cd2" -> "CD2"
      [] str = "7a" -> "7A"
      [] OTHER -> str

\* str::replace(" ", "") on the strings of the inputs
remove_spaces(str) ==
    CASE str = "AB 1" -> "AB1"
      [] str = "ab 1" -> "ab1"
      [] OTHER -> str

\* re_addr.replace(key, ""): the regex ^addr: removes one leading "addr:"
strip_addr(key) ==
    CASE key = "addr:postcode" -> "postcode"
      [] key = "addr:street" -> "street"
      [] key = "addr:city" -> "city"
      [] key = "addr:country" -> "country"
      [] key = "addr:province" -> "province"
      [] key = "addr:housenumber" -> "housenumber"
      [] key = "addr:addr:street" -> "addr:street"
      [] OTHER -> key

\* node::ActiveModel::default()
DefaultNode ==
    [id |-> NotSet, lat |-> NotSet, lon |-> NotSet, version |-> NotSet,
     updated_at |-> NotSet, city |-> NotSet, country |-> NotSet,
     postcode |-> NotSet, house_number |-> NotSet, street |-> NotSet,
     province |-> NotSet, source |-> NotSet, source_date |-> NotSet]

\* the row a bulk upsert writes for an ActiveModel
Row(am) ==
    [id |-> am.id[1], lat |-> <<am.lat[1], 1>>, lon |-> <<am.lon[1], 1>>,
     version |-> am.version[1], updated_at |-> am.updated_at[1],
     city |-> am.city[1], country |-> am.country[1],
     postcode |-> am.postcode[1], house_number |-> am.house_number[1],
     street |-> am.street[1], province |-> am.province[1],
     source |-> am.source[1], source_date |-> am.source_date[1]]

Rows(models) == [i \in 1..Len(models) |-> Row(models[i])]

\* --------------------------------------------------- parse_file (main.rs)
node_ready(n) == is_set(n.id) /\ is_set(n.postcode) /\ is_set(n.street)

\* a start element, as the loop reads it: its name and the attributes used
NodeEvent(id, lat, lon) ==
    [name |-> "node", id |-> id, lat |-> lat, lon |-> lon, version |-> Some(1),
     timestamp |-> None, k |-> None, v |-> None]

TagEvent(k, v) ==
    [name |-> "tag", id |-> None, lat |-> None, lon |-> None, version |-> None,
     timestamp |-> None, k |-> k, v |-> v]

OtherEvent(name) ==
    [name |-> name, id |-> None, lat |-> None, lon |-> None, version |-> None,
     timestamp |-> None, k |-> None, v |-> None]

NewNode_NotSticky(attribute_map, country, province) ==
    [id |-> MapOrNotSet(attribute_map.id),
     lat |-> MapOrNotSet(attribute_map.lat),
     lon |-> MapOrNotSet(attribute_map.lon),
     version |-> MapOrNotSet(attribute_map.version),
     updated_at |-> IF attribute_map.timestamp = None THEN Set(now)
                    ELSE Set(attribute_map.timestamp[1]),
     city |-> Set(NULL),
     country |-> Set(NULL),
     postcode |-> NotSet,
     house_number |-> Set(NULL),
     street |-> Set(NULL),
     province |-> Set(NULL),
     source |-> Set(NULL),
     source_date |-> Set(NULL)]

\* the current_node a node element starts
NewNode(attribute_map, country, province) ==
    [id |-> MapOrNotSet(attribute_map.id),
     lat |-> MapOrNotSet(attribute_map.lat),
     lon |-> MapOrNotSet(attribute_map.lon),
     version |-> MapOrNotSet(attribute_map.version),
     updated_at |-> IF attribute_map.timestamp = None THEN Set(now)
                    ELSE Set(attribute_map.timestamp[1]),
     city |-> Set(NULL),
     country |-> Set(country),
     postcode |-> NotSet,
     house_number |-> Set(NULL),
     street |-> Set(NULL),
     province |-> Set(province),
     source |-> Set(NULL),
     source_date |-> Set(NULL)]

\* the keys the match on the tag key has an arm for
DispatchKeys ==
    {"city", "country", "housenumber", "postcode", "street", "province", "source"}

TagApply_UnknownAsCity(n, key, value) ==
    CASE key = "city" -> [n EXCEPT !.city = Set(value)]
      [] key = "country" -> [n EXCEPT !.country = Set(value)]
      [] key = "housenumber" -> [n EXCEPT !.house_number = Set(to_uppercase(value))]
      [] key = "postcode" ->
             [n EXCEPT !.postcode = Set(remove_spaces(to_uppercase(value)))]
      [] key = "street" -> [n EXCEPT !.street = Set(value)]
      [] key = "province" -> [n EXCEPT !.province = Set(value)]
      [] key = "source" -> [n EXCEPT !.source = Set(value)]
      [] OTHER -> [n EXCEPT !.city = Set(value)]

\* the dispatch of a tag on its key, on current_node
TagApply(n, key, value) ==
    CASE key = "city" -> [n EXCEPT !.city = Set(value)]
      [] key = "country" -> [n EXCEPT !.country = Set(value)]
      [] key = "housenumber" -> [n EXCEPT !.house_number = Set(to_uppercase(value))]
      [] key = "postcode" ->
             [n EXCEPT !.postcode = Set(remove_spaces(to_uppercase(value)))]
      [] key = "street" -> [n EXCEPT !.street = Set(value)]
      [] key = "province" -> [n EXCEPT !.province = Set(value)]
      [] key = "source" -> [n EXCEPT !.source = Set(value)]
      [] OTHER -> n

NoTag == "-"

\* what the input said of the current record: its own province and country
\* tags, the last such tags read before its node element (inh_), the last
\* such tags read while a record started by a node element was current
\* (rec_, and prev_ as of its node element), and whether it had a street tag
NoHist ==
    [own_province |-> NoTag, own_country |-> NoTag, inh_province |-> NULL,
     inh_country |-> NULL, node_started |-> FALSE, rec_province |-> NULL,
     rec_country |-> NULL, prev_province |-> NULL, prev_country |-> NULL,
     street_tag |-> FALSE, ignored |-> {}]

NotFinalized == [any |-> FALSE, rec |-> DefaultNode, hist |-> NoHist, pushed |-> FALSE]

OnNode_PushNew(ev, buf) ==
    /\ buffer' = IF node_ready(current_node)
                 THEN Append(buf, NewNode(ev, current_country, current_province))
                 ELSE buf
    /\ current_node' = NewNode(ev, current_country, current_province)
    /\ finalized' = [any |-> TRUE, rec |-> current_node, hist |-> hist,
                     pushed |-> Len(buffer') > Len(buf)]
    /\ hist' = [own_province |-> NoTag, own_country |-> NoTag,
                inh_province |-> seen_province, inh_country |-> seen_country,
                node_started |-> TRUE, rec_province |-> hist.rec_province,
                rec_country |-> hist.rec_country,
                prev_province |-> hist.rec_province,
                prev_country |-> hist.rec_country, street_tag |-> FALSE,
                ignored |-> {}]
    /\ UNCHANGED <<current_province, current_country, seen_province, seen_country>>

\* ParsedElementEvent::Node(attribute_map)
OnNode(ev, buf) ==
    /\ buffer' = IF node_ready(current_node) THEN Append(buf, current_node) ELSE buf
    /\ current_node' = NewNode(ev, current_country, current_province)
    /\ finalized' = [any |-> TRUE, rec |-> current_node, hist |-> hist,
                     pushed |-> Len(buffer') > Len(buf)]
    /\ hist' = [own_province |-> NoTag, own_country |-> NoTag,
                inh_province |-> seen_province, inh_country |-> seen_country,
                node_started |-> TRUE, rec_province |-> hist.rec_province,
                rec_country |-> hist.rec_country,
                prev_province |-> hist.rec_province,
                prev_country |-> hist.rec_country, street_tag |-> FALSE,
                ignored |-> {}]
    /\ UNCHANGED <<current_province, current_country, seen_province, seen_country>>

\* ParsedElementEvent::Tag(tag_key, value)
OnTag(k, value, buf) ==
    LET key == strip_addr(k) IN
    /\ current_node' = TagApply(current_node, key, value)
    /\ current_country' = IF key = "country" THEN value ELSE current_country
    /\ current_province' = IF key = "province" THEN value ELSE current_province
    /\ buffer' = buf
    /\ seen_province' = IF k \in {"province", "addr:province"} THEN value
                        ELSE seen_province
    /\ seen_country' = IF k \in {"country", "addr:country"} THEN value
                       ELSE seen_country
    /\ hist' = [hist EXCEPT
                  !.own_province = IF k \in {"province", "addr:province"}
                                   THEN value ELSE @,
                  !.own_country = IF k \in {"country", "addr:country"}
                                  THEN value ELSE @,
                  !.rec_province = IF k \in {"province", "addr:province"}
                                      /\ hist.node_started
                                   THEN value ELSE @,
                  !.rec_country = IF k \in {"country", "addr:country"}
                                     /\ hist.node_started
                                  THEN value ELSE @,
                  !.street_tag = @ \/ k \in {"street", "addr:street"},
                  !.ignored = IF key \in DispatchKeys THEN @
                              ELSE @ \cup {"unknown_key"}]
    /\ UNCHANGED finalized

\* the parse of a start element and the match on the event
Dispatch(ev, buf) ==
    CASE ev.name = "node" -> OnNode(ev, buf)
      [] ev.name = "tag" /\ ev.k # None /\ ev.v # None -> OnTag(ev.k[1], ev.v[1], buf)
      [] OTHER ->
             /\ buffer' = buf
             /\ hist' = [hist EXCEPT
                           !.ignored = @ \cup {IF ev.name = "tag"
                                               THEN "no_key_or_value"
                                               ELSE "other_element"}]
             /\ UNCHANGED <<current_node, current_province, current_country,
                            seen_province, seen_country, finalized>>

RunningTask(models) == [batch |-> models, status |-> "running"]

all_joined_NoWait(fs) == TRUE

\* join_all(futures.drain(..)).await returns: every task has finished
all_joined(fs) == \A i \in 1..Len(fs) : fs[i].status # "running"

\* one start element of the loop of parse_file: a full buffer is handed to a
\* spawned write; with MaxFutures handles the loop awaits join_all first
StartElement(ev) ==
    /\ pc = "parse"
    /\ nevents' = nevents + 1
    /\ LET spawn == Len(buffer) >= BUFFER_SIZE
           futures1 == IF spawn THEN Append(futures, RunningTask(buffer)) ELSE futures
           buffer1 == IF spawn THEN <<>> ELSE buffer
       IN /\ writes_running' = IF spawn THEN writes_running + 1 ELSE writes_running
          /\ futures' = futures1
          /\ IF Len(futures1) >= MaxFutures
             THEN /\ pc' = "drain"
                  /\ pending' = ev
                  /\ buffer' = buffer1
                  /\ UNCHANGED <<current_node, current_province, current_country,
                                 hist, seen_province, seen_country, finalized>>
             ELSE /\ Dispatch(ev, buffer1)
                  /\ UNCHANGED <<pc, pending>>
    /\ UNCHANGED <<node, node_uniq, write_failed, node_before>>
    /\ UNCHANGED <<now, input>>
    /\ UNCHANGED bi_vars

DrainJoined_KeepHandles ==
    /\ pc = "drain"
    /\ all_joined(futures)
    /\ futures' = futures
    /\ pc' = "parse"
    /\ pending' = OtherEvent("none")
    /\ Dispatch(pending, buffer)
    /\ UNCHANGED <<node, node_uniq, nevents, writes_running, write_failed,
                   node_before>>
    /\ UNCHANGED <<now, input>>
    /\ UNCHANGED bi_vars

\* join_all returns in the loop: the handles are dropped and the element held
\* is processed
DrainJoined ==
    /\ pc = "drain"
    /\ all_joined(futures)
    /\ futures' = <<>>
    /\ pc' = "parse"
    /\ pending' = OtherEvent("none")
    /\ Dispatch(pending, buffer)
    /\ UNCHANGED <<node, node_uniq, nevents, writes_running, write_failed,
                   node_before>>
    /\ UNCHANGED <<now, input>>
    /\ UNCHANGED bi_vars

\* a spawned insert_many(buffer).exec() returns Ok
TaskOk(i) ==
    /\ i \in 1..Len(futures)
    /\ futures[i].status = "running"
    /\ node' = Upsert(node, Rows(futures[i].batch))
    /\ futures' = [futures EXCEPT ![i] = [batch |-> <<>>, status |-> "ok"]]
    /\ writes_running' = writes_running - 1
    /\ UNCHANGED <<pc, current_node, buffer, current_province, current_country,
                   pending, node_uniq, nevents, hist, seen_province,
                   seen_country, finalized, write_failed, node_before>>
    /\ UNCHANGED <<now, input>>
    /\ UNCHANGED bi_vars

\* a spawned insert_many(buffer).exec() returns Err, which the task returns
TaskErr(i) ==
    /\ i \in 1..Len(futures)
    /\ futures[i].status = "running"
    /\ futures' = [futures EXCEPT ![i] = [batch |-> <<>>, status |-> "err"]]
    /\ writes_running' = writes_running - 1
    /\ write_failed' = TRUE
    /\ UNCHANGED <<pc, current_node, buffer, current_province, current_country,
                   pending, node_uniq, nevents, hist, seen_province,
                   seen_country, finalized, node_before, node>>
    /\ UNCHANGED <<now, input>>
    /\ UNCHANGED bi_vars

\* the end of the stream: the last record is finalized and the final write of
\* the buffer is issued
EndOfStream ==
    /\ pc = "parse"
    /\ buffer' = IF node_ready(current_node) THEN Append(buffer, current_node)
                 ELSE buffer
    /\ finalized' = [any |-> TRUE, rec |-> current_node, hist |-> hist,
                     pushed |-> Len(buffer') > Len(buffer)]
    /\ pc' = "final_write"
    /\ UNCHANGED <<current_node, futures, current_province, current_country,
                   pending, node_uniq, nevents, hist, seen_province,
                   seen_country, writes_running, write_failed, node_before, node>>
    /\ UNCHANGED <<now, input>>
    /\ UNCHANGED bi_vars

\* insert_many(buffer.drain(..)).exec().await returns Ok
FinalWriteOk ==
    /\ pc = "final_write"
    /\ node' = Upsert(node, Rows(buffer))
    /\ buffer' = <<>>
    /\ pc' = "final_join"
    /\ UNCHANGED <<current_node, futures, current_province, current_country,
                   pending, node_uniq, nevents, hist, seen_province,
                   seen_country, finalized, writes_running, write_failed,
                   node_before>>
    /\ UNCHANGED <<now, input>>
    /\ UNCHANGED bi_vars

\* insert_many(buffer.drain(..)).exec().await returns Err: unwrap() panics
FinalWriteErr ==
    /\ pc = "final_write"
    /\ buffer' = <<>>
    /\ write_failed' = TRUE
    /\ pc' = "panicked"
    /\ UNCHANGED <<current_node, futures, current_province, current_country,
                   pending, node_uniq, nevents, hist, seen_province,
                   seen_country, finalized, writes_running, node_before, node>>
    /\ UNCHANGED <<now, input>>
    /\ UNCHANGED bi_vars

\* join_all(futures.drain(..)).await returns, parse_file returns Ok(()) and
\* main goes on to process_data
FinalJoin ==
    /\ pc = "final_join"
    /\ all_joined(futures)
    /\ futures' = <<>>
    /\ pc' = "dedup_create"
    /\ node_before' = node
    /\ UNCHANGED <<current_node, buffer, current_province, current_country,
                   pending, node_uniq, nevents, hist, seen_province,
                   seen_country, finalized, writes_running, write_failed, node>>
    /\ UNCHANGED <<now, input>>
    /\ UNCHANGED bi_vars

\* ------------------------------------------------- process_data (main.rs)
\* lat and lon are kept as fractions <<numerator, denominator>>, so that
\* AVG() is exact.
RECURSIVE Gcd(_, _)
Gcd(a, b) == IF b = 0 THEN a ELSE Gcd(b, a % b)

FracNorm(q) == LET g == Gcd(q[1], q[2]) IN
               IF g = 0 THEN <<0, 1>> ELSE <<q[1] \div g, q[2] \div g>>

FracAdd(p, q) == FracNorm(<<p[1] * q[2] + q[1] * p[2], p[2] * q[2]>>)

RECURSIVE SumLat(_)
SumLat(rows) ==
    IF rows = {} THEN <<0, 1>>
    ELSE LET r == CHOOSE x \in rows : TRUE IN FracAdd(r.lat, SumLat(rows \ {r}))

RECURSIVE SumLon(_)
SumLon(rows) ==
    IF rows = {} THEN <<0, 1>>
    ELSE LET r == CHOOSE x \in rows : TRUE IN FracAdd(r.lon, SumLon(rows \ {r}))

\* AVG(lat), AVG(lon) over the rows of a group
AvgLat(rows) == LET t == SumLat(rows) IN FracNorm(<<t[1], t[2] * Cardinality(rows)>>)
AvgLon(rows) == LET t == SumLon(rows) IN FracNorm(<<t[1], t[2] * Cardinality(rows)>>)

\* the rows of a table with one postcode: a group of GROUP BY postcode
Group(tbl, p) == {r \in tbl : r.postcode = p}

\* count(distinct street): NULL is not counted
CountDistinctStreet(rows) == Cardinality({r.street : r \in rows} \ {NULL})

UniqPostcodes_AnyStreet(tbl) ==
    {p \in {r.postcode : r \in tbl} : CountDistinctStreet(Group(tbl, p)) >= 1}

\* the groups that pass HAVING count(distinct street) = 1
UniqPostcodes(tbl) ==
    {p \in {r.postcode : r \in tbl} : CountDistinctStreet(Group(tbl, p)) = 1}

\* the row SELECT id, AVG(lat), AVG(lon), city, ... yields for a group: the
\* bare columns are those of one row of the group, which the store picks
UniqRow(rows, rep) ==
    [id |-> rep.id, lat |-> AvgLat(rows), lon |-> AvgLon(rows),
     city |-> rep.city, country |-> rep.country, postcode |-> rep.postcode,
     province |-> rep.province, street |-> rep.street, source |-> rep.source,
     source_date |-> rep.source_date, updated_at |-> rep.updated_at,
     version |-> rep.version]

\* the row INSERT INTO node (...) SELECT ..., null, ... FROM node_uniq adds
ReinsertedRow(u) ==
    [id |-> u.id, lat |-> u.lat, lon |-> u.lon, version |-> u.version,
     updated_at |-> u.updated_at, city |-> u.city, country |-> u.country,
     postcode |-> u.postcode, house_number |-> NULL, street |-> u.street,
     province |-> u.province, source |-> u.source, source_date |-> u.source_date]

NoTable == [exists |-> FALSE, rows |-> {}]

DedupSteps == {"dedup_create", "dedup_index", "dedup_delete", "dedup_insert",
               "dedup_drop"}

\* CREATE TABLE node_uniq AS SELECT ... GROUP BY postcode HAVING ...
CreateUniq ==
    /\ pc = "dedup_create"
    /\ ~node_uniq.exists
    /\ \E rep \in [UniqPostcodes(node) -> node] :
           /\ \A p \in UniqPostcodes(node) : rep[p].postcode = p
           /\ node_uniq' = [exists |-> TRUE,
                            rows |-> {UniqRow(Group(node, p), rep[p]) :
                                          p \in UniqPostcodes(node)}]
    /\ pc' = "dedup_index"
    /\ UNCHANGED <<current_node, buffer, futures, current_province,
                   current_country, pending, nevents, hist, seen_province,
                   seen_country, finalized, writes_running, write_failed,
                   node_before, node>>
    /\ UNCHANGED <<now, input>>
    /\ UNCHANGED bi_vars

\* CREATE INDEX idx_node_uniq_postcode ON node_uniq(postcode)
IndexUniq ==
    /\ pc = "dedup_index"
    /\ node_uniq.exists
    /\ pc' = "dedup_delete"
    /\ UNCHANGED <<current_node, buffer, futures, current_province,
                   current_country, pending, node_uniq, nevents, hist,
                   seen_province, seen_country, finalized, writes_running,
                   write_failed, node_before, node>>
    /\ UNCHANGED <<now, input>>
    /\ UNCHANGED bi_vars

\* DELETE FROM node WHERE postcode IN (SELECT postcode FROM node_uniq)
RemoveDuplicates ==
    /\ pc = "dedup_delete"
    /\ node_uniq.exists
    /\ node' = {r \in node : r.postcode \notin {u.postcode : u \in node_uniq.rows}}
    /\ pc' = "dedup_insert"
    /\ UNCHANGED <<current_node, buffer, futures, current_province,
                   current_country, pending, node_uniq, nevents, hist,
                   seen_province, seen_country, finalized, writes_running,
                   write_failed, node_before>>
    /\ UNCHANGED <<now, input>>
    /\ UNCHANGED bi_vars

\* INSERT INTO node (...) SELECT ... FROM node_uniq: fails as a whole on a
\* primary key already in node
ReinsertUniq ==
    /\ pc = "dedup_insert"
    /\ node_uniq.exists
    /\ \A u \in node_uniq.rows : \A r \in node : r.id # u.id
    /\ node' = node \cup {ReinsertedRow(u) : u \in node_uniq.rows}
    /\ pc' = "dedup_drop"
    /\ UNCHANGED <<current_node, buffer, futures, current_province,
                   current_country, pending, node_uniq, nevents, hist,
                   seen_province, seen_country, finalized, writes_running,
                   write_failed, node_before>>
    /\ UNCHANGED <<now, input>>
    /\ UNCHANGED bi_vars

\* DROP TABLE node_uniq; process_data returns Ok(()) and main returns
DropUniq ==
    /\ pc = "dedup_drop"
    /\ node_uniq.exists
    /\ node_uniq' = NoTable
    /\ pc' = "success"
    /\ UNCHANGED <<current_node, buffer, futures, current_province,
                   current_country, pending, nevents, hist, seen_province,
                   seen_country, finalized, writes_running, write_failed,
                   node_before, node>>
    /\ UNCHANGED <<now, input>>
    /\ UNCHANGED bi_vars

\* a statement of process_data returns Err: `?` returns it and main's unwrap()
\* panics
ProcessDataErr ==
    /\ pc \in DedupSteps
    /\ pc' = "panicked"
    /\ UNCHANGED <<current_node, buffer, futures, current_province,
                   current_country, pending, node_uniq, nevents, hist,
                   seen_province, seen_country, finalized, writes_running,
                   write_failed, node_before, node>>
    /\ UNCHANGED <<now, input>>
    /\ UNCHANGED bi_vars

\* a later run of main on the same database, without --fresh, after a run
\* whose process_data failed: build_db drops node_uniq if it is there, and the
\* pass is run again on the rows of node.
build_db ==
    /\ pc = "panicked"
    /\ node_uniq' = NoTable
    /\ pc' = "dedup_create"
    /\ UNCHANGED <<current_node, buffer, futures, current_province,
                   current_country, pending, nevents, hist, seen_province,
                   seen_country, finalized, writes_running, write_failed,
                   node_before, node>>
    /\ UNCHANGED <<now, input>>
    /\ UNCHANGED bi_vars

\* the tables a run of process_data without a failure can leave, started on tbl
PassResults(tbl) ==
    {{r \in tbl : r.postcode \notin UniqPostcodes(tbl)}
         \cup {ReinsertedRow(UniqRow(Group(tbl, p), rep[p])) :
                   p \in UniqPostcodes(tbl)} :
        rep \in {f \in [UniqPostcodes(tbl) -> tbl] :
                    \A p \in UniqPostcodes(tbl) : f[p].postcode = p}}

\* --------------------------------------------------------- specifications
\* the variables of main before parse_file starts
\* the locals of parse_file when its loop starts
ParseFileStart ==
    /\ pc = "parse"
    /\ current_node = DefaultNode
    /\ buffer = <<>>
    /\ futures = <<>>
    /\ current_province = NULL
    /\ current_country = NULL
    /\ pending = OtherEvent("none")
    /\ node_uniq = NoTable
    /\ nevents = 0
    /\ hist = NoHist
    /\ seen_province = NULL
    /\ seen_country = NULL
    /\ finalized = NotFinalized
    /\ writes_running = 0
    /\ write_failed = FALSE

MainStart ==
    /\ ParseFileStart
    /\ now = 1
    /\ input = <<>>
    /\ node_before = {}

\* the variables of a BatchInsert that is not used
BatchInsertUnused ==
    /\ batch_size = 1
    /\ pool_size = 1
    /\ batch = <<>>
    /\ dispatchers = <<>>
    /\ senders_open = FALSE
    /\ handles = <<>>
    /\ last_dispatcher = 0
    /\ bi_pc = "unused"
    /\ sending = NoBatch
    /\ join_idx = 0
    /\ inserted = <<>>
    /\ nflush = 0
    /\ last_op = "new"
    /\ sent = <<>>
    /\ written = <<>>

\* -- a BatchInsert over an empty store, used by a caller and dropped
BatchInsertInit ==
    /\ BatchInsertNew
    /\ node = {}
    /\ MainStart

SpecBatchInsert == BatchInsertInit /\ [][BatchInsertNext]_vars

\* the scheduling of the runtime: a worker task that can take a step takes
\* it, an exec() returns, and a send() or join that can complete completes.
\* Calls of insert(), flush() and drop() are the caller's and are not forced.
BatchInsertFairness ==
    /\ WF_vars(SendOk)
    /\ WF_vars(SendClosed)
    /\ WF_vars(JoinOk)
    /\ WF_vars(JoinErr)
    /\ \A w \in 0..(MaxPoolSize - 1) :
           /\ WF_vars(w \in Workers /\ WorkerRecv(w))
           /\ WF_vars(w \in Workers /\ WorkerRecvNone(w))
           /\ WF_vars(w \in Workers /\ (WorkerExecOk(w) \/ WorkerExecErr(w)))

\* the calls of a producer whose records have pairwise distinct ids.
BatchInsertDistinctNext ==
    \/ Insert([id |-> Len(inserted) + 1, version |-> Len(inserted) + 1])
    \/ Flush
    \/ SendOk
    \/ SendClosed
    \/ \E w \in Workers : WorkerRecv(w)
    \/ \E w \in Workers : WorkerRecvNone(w)
    \/ \E w \in Workers : WorkerExecOk(w)
    \/ \E w \in Workers : WorkerExecErr(w)
    \/ Drop
    \/ JoinOk
    \/ JoinErr

SpecBatchInsertFair ==
    BatchInsertInit /\ [][BatchInsertDistinctNext]_vars /\ BatchInsertFairness

\* -- the record builder of parse_file over short inputs with every kind of
\* start element
BuilderEvents ==
    {NodeEvent(id, Some(0), Some(0)) : id \in {None, Some(1), Some(2)}}
    \cup {TagEvent(Some(k), Some("ab 1")) : k \in {"addr:postcode"}}
    \cup {TagEvent(Some(k), Some("X")) : k \in {"addr:street", "name"}}
    \cup {TagEvent(Some(k), Some(v)) : k \in {"addr:province"}, v \in {"P1", "P2"}}
    \cup {TagEvent(Some(k), Some(v)) : k \in {"addr:country"}, v \in {"NL", "BE"}}
    \cup {TagEvent(Some("addr:street"), None), TagEvent(None, Some("X")),
          OtherEvent("way")}

MainInit ==
    /\ MainStart
    /\ node = {}
    /\ BatchInsertUnused

BuilderNext ==
    \/ \E ev \in BuilderEvents : nevents < MaxBuilderEvents /\ StartElement(ev)
    \/ \E i \in 1..MaxFutures : TaskOk(i)
    \/ \E i \in 1..MaxFutures : TaskErr(i)
    \/ EndOfStream
    \/ FinalWriteOk
    \/ FinalWriteErr
    \/ FinalJoin

SpecBuilder == MainInit /\ [][BuilderNext]_vars

\* -- main: parse_file over long inputs of few kinds of start element, then
\* process_data
MainEvents ==
    {NodeEvent(Some(id), Some(id), Some(0)) : id \in {1, 2}}
    \cup {TagEvent(Some("addr:postcode"), Some("ab 1")), OtherEvent("way")}

ProcessDataNext ==
    \/ CreateUniq
    \/ IndexUniq
    \/ RemoveDuplicates
    \/ ReinsertUniq
    \/ DropUniq
    \/ ProcessDataErr

MainNext ==
    \/ \E ev \in MainEvents : nevents < MaxMainEvents /\ StartElement(ev)
    \/ DrainJoined
    \/ \E i \in 1..MaxFutures : TaskOk(i)
    \/ \E i \in 1..MaxFutures : TaskErr(i)
    \/ EndOfStream
    \/ FinalWriteOk
    \/ FinalWriteErr
    \/ FinalJoin
    \/ ProcessDataNext

SpecMain == MainInit /\ [][MainNext]_vars

\* -- the record builder on inputs whose node elements carry, as version, their
\* position in the input
OrderEvents ==
    {NodeEvent(id, Some(0), Some(0)) : id \in {None, Some(1)}}
    \cup {TagEvent(Some("addr:postcode"), Some("ab 1")), OtherEvent("way")}

Stamp(ev) ==
    IF ev.name = "node" THEN [ev EXCEPT !.version = Some(nevents + 1)] ELSE ev

OrderNext ==
    \/ \E ev \in OrderEvents : nevents < MaxBuilderEvents /\ StartElement(Stamp(ev))
    \/ \E i \in 1..MaxFutures : TaskOk(i)
    \/ EndOfStream
    \/ FinalWriteOk
    \/ FinalJoin

SpecOrder == MainInit /\ [][OrderNext]_vars

\* -- parse_file run twice on one input, on the same store
NodeStamped(id, timestamp) ==
    [NodeEvent(Some(id), Some(id), Some(0)) EXCEPT !.timestamp = timestamp]

\* n node elements with ids 1..n, each followed by a postcode tag; ts says
\* which of them carry a timestamp attribute
IdemInput(n, ts) ==
    [i \in 1..(2 * n) |->
        IF i % 2 = 1 THEN NodeStamped((i + 1) \div 2, ts[(i + 1) \div 2])
        ELSE TagEvent(Some("addr:postcode"), Some("ab 1"))]

IdemInputs ==
    UNION {{IdemInput(n, ts) : ts \in [1..n -> {None, Some(0)}]} :
               n \in 1..MaxIdemRecords}

IdemInit ==
    /\ ParseFileStart
    /\ now = 1
    /\ input \in IdemInputs
    /\ node_before = {}
    /\ node = {}
    /\ BatchInsertUnused

\* parse_file has returned; the program is run a second time, later, on the
\* same input and the same database
ParseAgain ==
    /\ pc = "dedup_create"
    /\ now = 1
    /\ now' = now + 1
    /\ pc' = "parse"
    /\ current_node' = DefaultNode
    /\ buffer' = <<>>
    /\ futures' = <<>>
    /\ current_province' = NULL
    /\ current_country' = NULL
    /\ nevents' = 0
    /\ hist' = NoHist
    /\ seen_province' = NULL
    /\ seen_country' = NULL
    /\ finalized' = NotFinalized
    /\ UNCHANGED <<pending, node_uniq, writes_running, write_failed, input,
                   node_before, node>>
    /\ UNCHANGED bi_vars

IdemNext ==
    \/ nevents < Len(input) /\ StartElement(input[nevents + 1])
    \/ \E i \in 1..MaxFutures : TaskOk(i)
    \/ nevents = Len(input) /\ EndOfStream
    \/ FinalWriteOk
    \/ FinalJoin
    \/ ParseAgain

SpecIdem == IdemInit /\ [][IdemNext]_vars

\* -- process_data started on any table of up to MaxRows rows
DedupRow(id, postcode, street, lat, house_number) ==
    [id |-> id, lat |-> <<lat, 1>>, lon |-> <<3 * id, 1>>, version |-> 1,
     updated_at |-> 1, city |-> NULL, country |-> NULL,
     postcode |-> postcode, house_number |-> house_number, street |-> street,
     province |-> NULL, source |-> NULL, source_date |-> NULL]

DedupChoices ==
    [present : {TRUE}, postcode : {"AB1", "CD2"}, street : {NULL, "X", "Y"},
     lat : {0, 1}, house_number : {NULL, "7A"}]
    \cup [present : {FALSE}, postcode : {"AB1"}, street : {NULL}, lat : {0},
          house_number : {NULL}]

DedupTables ==
    {{DedupRow(id, c[id].postcode, c[id].street, c[id].lat, c[id].house_number) :
          id \in {i \in 1..MaxRows : c[i].present}} :
         c \in [1..MaxRows -> DedupChoices]}

DedupInit ==
    /\ node \in DedupTables
    /\ node_before = node
    /\ pc = "dedup_create"
    /\ now = 1
    /\ input = <<>>
    /\ current_node = DefaultNode
    /\ buffer = <<>>
    /\ futures = <<>>
    /\ current_province = NULL
    /\ current_country = NULL
    /\ pending = OtherEvent("none")
    /\ node_uniq = NoTable
    /\ nevents = 0
    /\ hist = NoHist
    /\ seen_province = NULL
    /\ seen_country = NULL
    /\ finalized = NotFinalized
    /\ writes_running = 0
    /\ write_failed = FALSE
    /\ BatchInsertUnused

SpecDedup == DedupInit /\ [][ProcessDataNext]_vars

\* -- process_data, and the runs that follow a failed one
RetryNext ==
    \/ ProcessDataNext
    \/ build_db

SpecRetry == DedupInit /\ [][RetryNext]_vars



\* ------------------------------------------------- claims on BatchInsert
InsertedRows == {inserted[i] : i \in 1..Len(inserted)}

DistinctIds ==
    \A i, j \in 1..Len(inserted) : i # j => inserted[i].id # inserted[j].id

\* C1 (no loss on drain): after N insert() calls with pairwise distinct ids,
\* a final flush() and a drop() that has joined every worker, the store holds
\* exactly the N records, whatever N is relative to batch_size.
C1_NoLossOnDrain ==
    (bi_pc = "dropped" /\ last_op = "flush" /\ DistinctIds) => node = InsertedRows

\* N = k*B + r with r > 0: three records, batches of two, drained.
C1_Witness ==
    /\ bi_pc = "dropped" /\ last_op = "flush" /\ DistinctIds
    /\ batch_size = 2 /\ Len(inserted) = 3 /\ node = InsertedRows

\* C2 (scope exit loses nothing): once drop() has returned, every record that
\* was passed to insert() is in the store, also when no flush() preceded.
C2_DropLosesNothing ==
    bi_pc = "dropped" =>
        \A i \in 1..Len(inserted) : \E row \in node : row.id = inserted[i].id

SentTo(w) == {sent[w][i].n : i \in 1..Len(sent[w])}

\* C6 (round-robin fairness): the cursor stays in 0..P-1, the batch after one
\* sent to worker w goes to worker (w + 1) mod P, and once M >= P batches were
\* submitted every worker has been sent floor(M/P) or ceil(M/P) of them.
C6_RoundRobinFairness ==
    /\ last_dispatcher \in 0..(pool_size - 1)
    /\ \A w \in Workers : \A n \in SentTo(w) :
           n > 1 => (n - 1) \in SentTo((w + pool_size - 1) % pool_size)
    /\ TotalSent >= pool_size =>
           \A w \in Workers :
               /\ Len(sent[w]) >= TotalSent \div pool_size
               /\ Len(sent[w]) <= (TotalSent + pool_size - 1) \div pool_size

\* three batches over two workers: one got two, the other one.
C6_Witness ==
    /\ pool_size = 2 /\ TotalSent = 3
    /\ Len(sent[0]) = 1 /\ Len(sent[1]) = 2

\* C7 (FIFO per worker): a worker upserts the batches sent to it in the order
\* they were sent: what it has written is a prefix of what it was sent, and
\* the batch it is writing is the next one.
C7_FifoPerWorker ==
    \A w \in Workers :
        /\ Len(written[w]) <= Len(sent[w])
        /\ written[w] = SubSeq(sent[w], 1, Len(written[w]))
        /\ handles[w].state = "exec" =>
               /\ Len(written[w]) < Len(sent[w])
               /\ handles[w].cur = sent[w][Len(written[w]) + 1]

\* a worker has two batches queued behind the one it is writing.
C7_Witness ==
    \E w \in Workers :
        /\ Len(written[w]) = 1 /\ Len(dispatchers[w]) = 2
        /\ handles[w].state = "exec"

\* the batches buffered in the worker queues
RECURSIVE QueuedUpTo(_)
QueuedUpTo(w) == IF w < 0 THEN 0 ELSE Len(dispatchers[w]) + QueuedUpTo(w - 1)

InFlight == QueuedUpTo(pool_size - 1)

Populated(av) == is_set(av) /\ av[1] # NULL

\* C3 (readiness invariant): a record is pushed to the buffer at its
\* finalization if and only if its id, postcode and street are populated, and
\* no record without them is written to the store.
C3_ReadinessInvariant ==
    /\ finalized.any =>
           (finalized.pushed <=>
                /\ is_set(finalized.rec.id)
                /\ is_set(finalized.rec.postcode)
                /\ Populated(finalized.rec.street))
    /\ \A row \in node : row.street # NULL

\* C5 (drain-before-dedup barrier): while a statement of process_data is to
\* run or the scratch table exists, no batch write is in progress.
C5_DrainBeforeDedup ==
    (pc \in DedupSteps \/ node_uniq.exists) =>
        /\ writes_running = 0
        /\ \A i \in 1..Len(futures) : futures[i].status # "running"

\* the scratch table exists after an ingestion whose spawned write has ended.
C5_Witness ==
    /\ pc = "dedup_index" /\ node_uniq.exists
    /\ write_failed /\ node # {}

\* C9 (contextual stickiness), as claimed: a pushed record that had a
\* province (country) tag of its own stores the value of that tag; one that
\* had none stores the value set by the nearest preceding record that had
\* one, and NULL when no preceding record had one.
C9_StickyFromRecords ==
    (finalized.any /\ finalized.pushed) =>
        /\ finalized.rec.province =
               Set(IF finalized.hist.own_province # NoTag
                   THEN finalized.hist.own_province
                   ELSE finalized.hist.prev_province)
        /\ finalized.rec.country =
               Set(IF finalized.hist.own_country # NoTag
                   THEN finalized.hist.own_country
                   ELSE finalized.hist.prev_country)

\* C9, amended: a pushed record that had a province (country) tag of its own
\* stores the value of that tag; one that had none stores the value of the
\* last such tag read before its node element, the tags read before the first
\* node element included, and NULL when there was none.
C9_ContextualStickiness ==
    (finalized.any /\ finalized.pushed) =>
        /\ finalized.rec.province =
               Set(IF finalized.hist.own_province # NoTag
                   THEN finalized.hist.own_province
                   ELSE finalized.hist.inh_province)
        /\ finalized.rec.country =
               Set(IF finalized.hist.own_country # NoTag
                   THEN finalized.hist.own_country
                   ELSE finalized.hist.inh_country)

\* a pushed record without a province tag inherited the province P2, which a
\* preceding record had set.
C9_Witness ==
    /\ finalized.any /\ finalized.pushed
    /\ finalized.hist.own_province = NoTag
    /\ finalized.hist.inh_province = "P2"
    /\ finalized.hist.prev_province = "P2"
    /\ finalized.rec.province = Set("P2")
    /\ finalized.rec.country = Set(NULL)

\* C10 (write failures are not reported as success): a run in which a batch
\* write failed does not end with process_data completed and success.
C10_FailureNotSuccess == pc = "success" => ~write_failed

\* ------------------------------------------------ claims on process_data
\* C4 (dedup correctness): when process_data has completed, a postcode whose
\* rows had exactly one distinct street has exactly one row, with the mean
\* lat and lon of its rows and no house_number; the rows of a postcode with
\* more than one distinct street are as they were; node_uniq is gone.
C4_DedupCorrectness ==
    pc = "success" =>
        /\ ~node_uniq.exists
        /\ \A p \in {r.postcode : r \in node_before} :
               LET g == Group(node_before, p) IN
               /\ CountDistinctStreet(g) = 1 =>
                      \E r \in node :
                          /\ Group(node, p) = {r}
                          /\ r.lat = AvgLat(g)
                          /\ r.lon = AvgLon(g)
                          /\ r.house_number = NULL
               /\ CountDistinctStreet(g) > 1 => Group(node, p) = g

\* two rows of one postcode and one street, with different coordinates and a
\* house number, were collapsed into one row.
C4_Witness ==
    /\ pc = "success"
    /\ Cardinality(node_before) = 2
    /\ \E r \in node_before : r.house_number # NULL
    /\ \E r \in node : node = {r} /\ r.lat = <<1, 2>> /\ r.lon = <<9, 2>>

\* --------------------------------------- claims on BatchInsert, continued
DrainEnded == bi_pc \in {"dropped", "panicked_dropped", "drop_panicked"}

\* C11 (the drain terminates): under fair scheduling, a drop() that has
\* closed the queues ends, with every worker joined or with the JoinError
\* of an aborted worker, and a send() to a worker that has aborted returns.
C11_DrainTerminates ==
    /\ (bi_pc \in {"join", "join_unwinding"}) ~> DrainEnded
    /\ (bi_pc = "send" /\ handles[last_dispatcher].state = "aborted")
           ~> (bi_pc = "panicked")

\* the join saw the second of two workers aborted, after joining the first.
C11_Witness ==
    /\ bi_pc = "drop_panicked" /\ pool_size = 2 /\ join_idx = 1
    /\ handles[0].state = "done" /\ handles[1].state = "aborted"

\* C12 (dedup retry safety): when the pass has completed, after any number
\* of failed runs each followed by the start-up cleanup, node is what a run
\* without failure leaves of the original rows, and every postcode that was
\* aggregated still has a row.
C12_RetrySafe ==
    pc = "success" =>
        /\ node \in PassResults(node_before)
        /\ \A p \in UniqPostcodes(node_before) : Group(node, p) # {}

\* where the i-th record passed to insert() went: the worker and the batch
Placed(i) ==
    {p \in {q \in Workers \X (1..MaxInserts + MaxFlushes) : q[2] <= Len(sent[q[1]])} :
        \E m \in 1..Len(sent[p[1]][p[2]].items) :
            sent[p[1]][p[2]].items[m] = inserted[i]}

\* the batch p, of a worker, has been upserted
IsWritten(p) == p[2] <= Len(written[p[1]])

SameIdPairs ==
    {ij \in (1..Len(inserted)) \X (1..Len(inserted)) :
        ij[1] < ij[2] /\ inserted[ij[1]].id = inserted[ij[2]].id}

RecordsOfId(id) == {i \in 1..Len(inserted) : inserted[i].id = id}

\* C15 as stated (same-key ordering): the later of two records of one id is
\* upserted before the earlier only if they are in different batches sent to
\* different workers; and when the drain has completed, if they were in one
\* batch or in batches of one worker, the row of that id is the later
\* record's.
C15_LaterRecordStored ==
    \A ij \in SameIdPairs : \A pi \in Placed(ij[1]) : \A pj \in Placed(ij[2]) :
        /\ (IsWritten(pj) /\ ~IsWritten(pi)) => (pi[1] # pj[1] /\ pi # pj)
        /\ (bi_pc = "dropped" /\ pi[1] = pj[1]) => inserted[ij[2]] \in node

\* C15, amended: the later of two records of one id is upserted before the
\* earlier only if they are in different batches sent to different workers;
\* and when the drain has completed, if they were in one batch or in batches
\* of one worker, the row of that id is not the earlier record's, and it is
\* the later record's when no third record has that id.
C15_SameKeyOrdering ==
    \A ij \in SameIdPairs : \A pi \in Placed(ij[1]) : \A pj \in Placed(ij[2]) :
        /\ (IsWritten(pj) /\ ~IsWritten(pi)) => (pi[1] # pj[1] /\ pi # pj)
        /\ (bi_pc = "dropped" /\ pi[1] = pj[1]) =>
               /\ inserted[ij[1]] \notin node
               /\ \E r \in node : r.id = inserted[ij[1]].id
               /\ RecordsOfId(inserted[ij[1]].id) = {ij[1], ij[2]} =>
                      inserted[ij[2]] \in node

\* three records of id 1 in batches of one over two workers: the first and
\* the third went to one worker, the second to the other, which wrote last.
C15_Witness ==
    /\ bi_pc = "dropped" /\ pool_size = 2 /\ batch_size = 1
    /\ Len(inserted) = 3 /\ \A i \in 1..3 : inserted[i].id = 1
    /\ Placed(1) = {<<1, 1>>} /\ Placed(2) = {<<0, 1>>} /\ Placed(3) = {<<1, 2>>}
    /\ node = {inserted[2]}

\* C17 (accumulator capacity): when no call is in progress the batch holds
\* fewer than batch_size records; a batch that insert() submits is the last
\* batch_size records inserted, in order; and once a batch is submitted the
\* in-memory batch is empty.
C17_AccumulatorCapacity ==
    /\ bi_pc = "idle" => Len(batch) < batch_size
    /\ (bi_pc = "send" /\ last_op = "insert") =>
           /\ Len(sending.items) = batch_size
           /\ sending.items = SubSeq(inserted, Len(inserted) - batch_size + 1,
                                     Len(inserted))
    /\ bi_pc = "send" => batch = <<>>

\* after an explicit flush of the first record, insert() submits the second
\* and the third as a batch of two.
C17_Witness ==
    /\ bi_pc = "send" /\ last_op = "insert" /\ batch_size = 2 /\ nflush = 1
    /\ Len(inserted) = 3
    /\ sending.items = <<inserted[2], inserted[3]>>
    /\ batch = <<>>

\* C19 (no empty batch): no batch that flush() sends to a worker is empty,
\* and the buffer of the final write of parse_file is not empty.
C19_NoEmptyBatch ==
    /\ bi_pc = "send" => sending.items # <<>>
    /\ pc = "final_write" => buffer # <<>>

\* ------------------------------------------- claims on parse_file, continued
\* C13 (idempotent ingestion): when the second run of parse_file on the same
\* input, whose records have distinct ids, has written everything, the rows
\* of node are those the first run left.
C13_IdempotentIngestion ==
    (now = 2 /\ pc = "final_join" /\ all_joined(futures)) => node = node_before

\* the start elements the loop skips or has no arm for
IgnoredEvents ==
    {ev \in BuilderEvents :
        \/ ev.name \notin {"node", "tag"}
        \/ /\ ev.name = "tag"
           /\ \/ ev.k = None
              \/ ev.v = None
              \/ strip_addr(ev.k[1]) \notin DispatchKeys}

\* C14 (ignored events change nothing): a step that reads a tag without key
\* or value, a tag whose key has no arm, or an element other than node and
\* tag leaves current_node, current_province and current_country as they
\* were, finalizes no record and pushes none to the buffer.
C14_IgnoredEventsChangeNothing ==
    [][\A ev \in IgnoredEvents :
           StartElement(ev) =>
               /\ current_node' = current_node
               /\ current_province' = current_province
               /\ current_country' = current_country
               /\ finalized' = finalized
               /\ buffer' = buffer \/ (Len(buffer) >= BUFFER_SIZE /\ buffer' = <<>>)]_vars

\* the three kinds of ignored element were read while record 1 was current,
\* after its postcode and province tags, and the record is ready and intact.
C14_Witness ==
    /\ pc = "parse"
    /\ hist.ignored = {"no_key_or_value", "unknown_key", "other_element"}
    /\ current_node.id = Set(1)
    /\ current_node.postcode = Set("AB1")
    /\ current_node.province = Set("P1")
    /\ current_province = "P1"
    /\ current_node.city = Set(NULL)
    /\ node_ready(current_node)

RECURSIVE FlattenBatches(_)
FlattenBatches(fs) ==
    IF fs = <<>> THEN <<>> ELSE Head(fs).batch \o FlattenBatches(Tail(fs))

\* the records pushed so far, in the order they were pushed: those of the
\* buffers handed to spawned writes, then those of the buffer
Pushed == FlattenBatches(futures) \o buffer

\* C16 (in order, exactly once): the pushed records are in the order of their
\* node elements, none twice; a step of the loop pushes at most one record,
\* the current one, and only when it reads the next node element or the end
\* of the input; a record that was pushed is not changed by later steps.
C16_InOrderExactlyOnce ==
    /\ [](pc \in {"parse", "final_write"} =>
             \A i, j \in 1..Len(Pushed) :
                 i < j => Pushed[i].version[1] < Pushed[j].version[1])
    /\ [][(pc = "parse" /\ (nevents' # nevents \/ pc' # pc)) =>
              \/ Pushed' = Pushed
              \/ /\ Pushed' = Append(Pushed, current_node)
                 /\ \/ pc' = "final_write"
                    \/ current_node'.version = Set(nevents + 1)]_vars

\* three records were pushed, the first two handed to a spawned write.
C16_Witness ==
    /\ pc = "final_write"
    /\ Len(futures) = 1 /\ Len(buffer) = 1
    /\ Pushed[1].version = Set(1) /\ Pushed[2].version = Set(3)
    /\ Pushed[3].version = Set(5)

\* C18 (readiness requires a street): a record for which no street tag was
\* read between its node element and its finalization is not pushed.
C18_NoPushWithoutStreet ==
    (finalized.any /\ finalized.pushed) => finalized.hist.street_tag

\* C20 (bounded in-flight work): while the loop runs the buffer holds at most
\* BUFFER_SIZE records and at most MaxFutures write tasks are unjoined, fewer
\* when an element is being processed; once there are MaxFutures of them the
\* loop processes nothing until all have ended, and then holds none.
C20_BoundedInFlight ==
    /\ [](pc \in {"parse", "drain"} =>
             /\ Len(buffer) <= BUFFER_SIZE
             /\ Len(futures) <= MaxFutures
             /\ pc = "parse" => Len(futures) < MaxFutures
             /\ pc = "drain" => Len(futures) = MaxFutures)
    /\ [][pc = "drain" =>
              \/ /\ pc' = "drain"
                 /\ Len(futures') = Len(futures)
                 /\ UNCHANGED <<current_node, buffer, nevents, pending>>
              \/ /\ pc' = "parse"
                 /\ all_joined(futures)
                 /\ futures' = <<>>]_vars

\* the loop waits with MaxFutures unjoined writes, one still running, after
\* the buffer was full.
C20_Witness ==
    /\ pc = "drain"
    /\ Len(futures) = MaxFutures
    /\ \E i \in 1..Len(futures) : futures[i].status = "running"
    /\ \A i \in 1..Len(futures) : Len(futures[i].batch) \in {0, BUFFER_SIZE}

====
